---- MODULE Spec2Model ----
(***************************************************************************)
(* Model of proxium.py: the proxy-relay retrieval of                       *)
(* fetch_content_through_proxy and the blacklist store                     *)
(* (load_bad_servers / save_bad_servers) it shares between calls.          *)
(*                                                                         *)
(* A call is one invocation of fetch_content_through_proxy by the request  *)
(* layer (get_content).  Calls own their browser session and their local   *)
(* variables; the only state they share is the file bad_servers.json.      *)
(***************************************************************************)
EXTENDS Naturals, Sequences, FiniteSets

\* ------------------------------------------------------------------ bounds
\* The calls the request layer makes (each runs once; they may overlap).
Calls == {"c1", "c2"}
\* The data-value codes the proxy site's dropdown may show.
Servers == {"r1", "r2"}
\* Longest list of options one enumeration of the dropdown returns.
MaxOptions == 2
\* for attempt in range(5)
MAX_ROUNDS == 5

\* ------------------------------------------------------------- page texts
\* Texts are sequences of characters.  The marker is the string inside
\* DATA_VERIFIER; the page texts a relay may render: nothing, a page that
\* holds the marker, a page that holds its characters but not contiguously.
Marker == <<"O", "K">>
Texts == { <<>>, <<"x", "O", "K">>, <<"O", "x", "K">> }

\* The value bound to DATA_VERIFIER.  The literal in the source is written
\* with braces, a set holding the marker; a deployment replaces the
\* placeholder by its own marker string.  Both are kept: kind "set" is the
\* file as shipped, kind "str" a file whose placeholder was replaced.
VerifierValues == { [kind |-> "set", val |-> Marker], [kind |-> "str", val |-> Marker] }

\* Nothing in the source checks the value: the placeholder may as well have
\* been replaced by the empty string.
AnyVerifier == VerifierValues \cup { [kind |-> "str", val |-> <<>>] }

\* needle in haystack for two str operands: contiguous substring.
Contains(needle, haystack) ==
    \E i \in 1..(Len(haystack) + 1) :
        /\ i + Len(needle) - 1 <= Len(haystack)
        /\ SubSeq(haystack, i, i + Len(needle) - 1) = needle

\* ------------------------------------------------------------------ JSON
\* The text of the backing file is a sequence of tokens: "{", the keys in
\* dict order, "}".  (Every value is 1; the separators carry no information.
\* The keys are the str codes of Servers, which json writes and reads back
\* unchanged.)
json_dump(d) == <<"{">> \o d \o <<"}">>

\* Text json.load accepts: one object and nothing after it.
JsonValid(text) ==
    /\ Len(text) >= 2
    /\ text[1] = "{"
    /\ text[Len(text)] = "}"
    /\ \A i \in 2..(Len(text) - 1) : text[i] \in Servers

RECURSIVE DictFromKeys(_)
\* A dict built from keys in order: a repeated key keeps its first position.
DictFromKeys(ks) ==
    IF ks = <<>> THEN <<>>
    ELSE LET front == DictFromKeys(SubSeq(ks, 1, Len(ks) - 1))
             k == ks[Len(ks)]
         IN IF \E i \in 1..Len(front) : front[i] = k THEN front ELSE Append(front, k)

json_load(text) == DictFromKeys(SubSeq(text, 2, Len(text) - 1))

\* The keys of a dict (a sequence of distinct keys in insertion order).
Keys(d) == { d[i] : i \in 1..Len(d) }

\* Keys of the mapping the file holds, when it holds one.
FileKeys(f) == IF f.exists /\ JsonValid(f.text) THEN Keys(json_load(f.text)) ELSE {}

\* Every dict over Servers: the sequences without repetition.
Dicts ==
    { d \in UNION { [1..n -> Servers] : n \in 0..Cardinality(Servers) } :
        \A i, j \in 1..Len(d) : i # j => d[i] # d[j] }

\* What driver.find_elements may return: the options in page order.  The page
\* is the remote site's: any list, repeated codes included.
Enumerations == UNION { [1..n -> Servers] : n \in 0..MaxOptions }

\* What the browser gives when an option of the dropdown is handled: touching
\* the element raises (the option is stale once the page has moved on), or the
\* relay is submitted and the page shows a text.
Stale == <<"stale">>
Responses == Texts \cup {Stale}

\* ------------------------------------------------------------------ files
NoFile == [exists |-> FALSE, text |-> <<>>]
\* A file someone damaged: an object that is never closed.
CorruptText == <<"{">>
\* The backing file as earlier runs or an operator may have left it: absent,
\* damaged, or the dump of a dict (one dict of each size; the codes are
\* interchangeable).
InitialFiles ==
    { NoFile, [exists |-> TRUE, text |-> CorruptText] }
        \cup { [exists |-> TRUE, text |-> json_dump(d)] :
                 d \in { <<>>, <<"r1">>, <<"r1", "r2">> } }

\* open(path, 'w'): the file exists afterwards and is empty.
OpenForWrite(f) == [exists |-> TRUE, text |-> <<>>]


\* A save that merges the keys the file holds into what it writes.
FlushAtZero_merges(f, data) ==
    IF JsonValid(f.text)
    THEN [exists |-> TRUE,
          text |-> json_dump(DictFromKeys(json_load(f.text) \o json_load(data)))]
    ELSE [exists |-> TRUE, text |-> data \o SubSeq(f.text, Len(data) + 1, Len(f.text))]

\* Leaving the with block flushes the buffered dump: the handle's position is
\* still 0, so the dump replaces the first Len(data) tokens of whatever the
\* file holds by then and leaves the rest.
FlushAtZero(f, data) ==
    [exists |-> TRUE, text |-> data \o SubSeq(f.text, Len(data) + 1, Len(f.text))]

\* The file is empty or left over from overlapping writes (not valid JSON,
\* and not the damage it started with).
Torn(f) == f.exists /\ ~JsonValid(f.text) /\ f.text # CorruptText

\* ------------------------------------------------------------------ state
VARIABLES
    DATA_VERIFIER,    \* the module-level verifier value
    file,             \* bad_servers.json
    pc,               \* where each call is
    exc,              \* the exception propagating out of each call, or "none"
    driver,           \* each call's browser session: "none", "open", "quit"
    bad_servers,      \* each call's local dict
    content,          \* each call's local result text
    attempt,          \* each call's round loop variable
    consent,          \* the consent button in the round under way: "none"
                      \*   (between rounds), "clicked", "failed"
    \* history (not read by the program)
    loaded,           \* the dict load_bad_servers returned to the call
    seen,             \* what load_bad_servers found: "unread", "absent",
                      \*   "mapping", "malformed", "torn"
    rejected,         \* codes the call submitted whose text failed verification
    roundSub,         \* codes the call submitted in its latest round, in order
                      \*   (empty again when the next round navigates and once
                      \*   the round loop is left)
    roundFree,        \* that round's enumerated codes not blacklisted at enumeration
    roundOrder,       \* those codes in page order (first appearance of each)
    passed,           \* the texts of the call that passed the verification, in order
    submitted,        \* every code the call submitted, in order, over all rounds
    timeouts,         \* form waits of the call that timed out
    navs,             \* driver.get calls of the call (counted to MAX_ROUNDS + 1)
    quits,            \* driver.quit calls of the call
    saves,            \* save_bad_servers calls of the call
    overlap,          \* the call ran while another call was running
    everInFile,       \* every code the file has held as a key so far
    fileBefore        \* the file when the call started

progVars == <<DATA_VERIFIER, file, pc, exc, driver, bad_servers, content, attempt,
              consent>>
histVars == <<loaded, seen, rejected, roundSub, roundFree, roundOrder, passed, submitted,
              timeouts, navs, quits, saves,
              overlap, everInFile, fileBefore>>
vars == <<progVars, histVars>>

Running(q) == pc[q] \notin {"idle", "done"}

\* The state before any call, with DATA_VERIFIER one of verifiers.
Start(verifiers) ==
    /\ DATA_VERIFIER \in verifiers
    /\ file \in InitialFiles
    /\ pc = [p \in Calls |-> "idle"]
    /\ exc = [p \in Calls |-> "none"]
    /\ driver = [p \in Calls |-> "none"]
    /\ bad_servers = [p \in Calls |-> <<>>]
    /\ content = [p \in Calls |-> <<>>]
    /\ attempt = [p \in Calls |-> 0]
    /\ consent = [p \in Calls |-> "none"]
    /\ loaded = [p \in Calls |-> <<>>]
    /\ seen = [p \in Calls |-> "unread"]
    /\ rejected = [p \in Calls |-> {}]
    /\ roundSub = [p \in Calls |-> <<>>]
    /\ roundFree = [p \in Calls |-> {}]
    /\ roundOrder = [p \in Calls |-> <<>>]
    /\ passed = [p \in Calls |-> <<>>]
    /\ submitted = [p \in Calls |-> <<>>]
    /\ timeouts = [p \in Calls |-> 0]
    /\ navs = [p \in Calls |-> 0]
    /\ quits = [p \in Calls |-> 0]
    /\ saves = [p \in Calls |-> 0]
    /\ overlap = [p \in Calls |-> FALSE]
    /\ everInFile = FileKeys(file)
    /\ fileBefore = [p \in Calls |-> NoFile]

Init == Start(VerifierValues)


\* A load that never reads the file.
load_bad_servers_forgets(f) == [raises |-> "none", value |-> <<>>]

\* ------------------------------------------------------- program decisions
\* load_bad_servers: the dict it returns, or the exception it lets through.
\* An absent file gives {}; json.load's JSONDecodeError is no FileNotFoundError
\* and is not caught.
load_bad_servers(f) ==
    IF ~f.exists THEN [raises |-> "none", value |-> <<>>]
    ELSE IF JsonValid(f.text) THEN [raises |-> "none", value |-> json_load(f.text)]
    ELSE [raises |-> "JSONDecodeError", value |-> <<>>]

\* What load_bad_servers found, for the record.
SeenKind(f) ==
    IF ~f.exists THEN "absent"
    ELSE IF JsonValid(f.text) THEN "mapping"
    ELSE IF Torn(f) THEN "torn" ELSE "malformed"


\* A round loop that runs one round too many.
RoundsLeft_offbyone(a) == a <= MAX_ROUNDS

\* A round loop written range(4).
RoundsLeft_short(a) == a < MAX_ROUNDS - 1

\* for attempt in range(5): another round is left.
RoundsLeft(a) == a < MAX_ROUNDS


\* A membership test that never finds the code.
InBad_never(code, d) == FALSE

\* if server_code in bad_servers
InBad(code, d) == code \in Keys(d)


\* A rejection that is not recorded.
AddBad_forgets(d, code) == d

\* bad_servers[server_code] = 1
AddBad(d, code) == IF code \in Keys(d) THEN d ELSE Append(d, code)

\* A verification that accepts every text.
VerifyOutcome_anything(v, text) == IF v.kind # "str" THEN "TypeError" ELSE "found"

\* if DATA_VERIFIER in current_content or DATA_VERIFIER in current_content:
\* "in" with a str on the right needs a str on the left, else TypeError.
VerifyOutcome(v, text) ==
    IF v.kind # "str" THEN "TypeError"
    ELSE IF Contains(v.val, text) \/ Contains(v.val, text) THEN "found"
    ELSE "missing"


\* A save that does not look at the result.
ShouldSave_always(c) == TRUE

\* A save under the inverted test ("if content").
ShouldSave_inverted(c) == c # <<>>

\* if not content: the empty string is the only falsy text.
ShouldSave(c) == c = <<>>

\* The codes of an enumeration that are not keys of d.
FreeCodes(elems, d) == { elems[i] : i \in { j \in 1..Len(elems) : ~InBad(elems[j], d) } }

\* The exception classes the model names; each derives from Exception.
Exceptions ==
    { "SessionStartError", "JSONDecodeError", "WebDriverException", "TimeoutException",
      "ElementClickInterceptedException", "TypeError", "OSError" }

\* What the consent try block can do: the button is clicked, the 5 s wait for
\* it times out, or the click raises.
ConsentOutcomes == { "clicked", "TimeoutException", "ElementClickInterceptedException" }


\* An except clause that names the wait's timeout only.
ConsentCaught_timeout_only(e) == e = "TimeoutException"

\* except Exception as e: every exception of the consent try block is caught.
ConsentCaught(e) == e \in Exceptions


\* A loop variable that is never advanced.
NextAttempt_stuck(a) == a

\* for attempt in range(5): the next round's loop variable.
NextAttempt(a) == a + 1

\* An elem loop that walks the options from the last to the first.
Nth_reversed(elems, i) == elems[Len(elems) + 1 - i]

\* for elem in server_elements: the option the loop handles i-th is the i-th
\* that find_elements returned.
Nth(elems, i) == elems[i]

\* The codes of an enumeration that are not keys of d, in page order, each at
\* its first appearance.
RECURSIVE FreeOrder(_, _)
FreeOrder(elems, d) ==
    IF elems = <<>> THEN <<>>
    ELSE LET front == FreeOrder(SubSeq(elems, 1, Len(elems) - 1), d)
             last  == elems[Len(elems)]
         IN IF InBad(last, d) \/ last \in { front[i] : i \in 1..Len(front) }
            THEN front ELSE Append(front, last)

\* navs counts the driver.get calls of a call, and stops counting one past
\* MAX_ROUNDS.
CountNav(n) == IF n <= MAX_ROUNDS THEN n + 1 ELSE n

\* -------------------------------------------------------------- the call
\* driver = initialize_webdriver(): the browser starts.
session_start(p) ==
    /\ pc[p] = "idle"
    /\ pc' = [pc EXCEPT ![p] = "load"]
    /\ driver' = [driver EXCEPT ![p] = "open"]
    /\ fileBefore' = [fileBefore EXCEPT ![p] = file]
    /\ overlap' = [q \in Calls |->
                      IF q = p THEN \E r \in Calls \ {p} : Running(r)
                      ELSE overlap[q] \/ Running(q)]
    /\ UNCHANGED <<DATA_VERIFIER, file, exc, bad_servers, content, attempt, consent>>
    /\ UNCHANGED <<loaded, seen, rejected, roundSub, roundFree, roundOrder, passed,
                   submitted, timeouts, navs, quits, saves, everInFile>>

\* driver = initialize_webdriver(): webdriver.Chrome raises, no session exists.
session_start_raises(p) ==
    /\ pc[p] = "idle"
    /\ pc' = [pc EXCEPT ![p] = "done"]
    /\ exc' = [exc EXCEPT ![p] = "SessionStartError"]
    /\ fileBefore' = [fileBefore EXCEPT ![p] = file]
    /\ UNCHANGED <<DATA_VERIFIER, file, driver, bad_servers, content, attempt, consent>>
    /\ UNCHANGED <<loaded, seen, rejected, roundSub, roundFree, roundOrder, passed,
                   submitted, timeouts, navs, quits, saves, overlap, everInFile>>

\* bad_servers = load_bad_servers(); content = ''.  The call is not yet inside
\* the try: an exception here leaves the function at once.
load(p) ==
    /\ pc[p] = "load"
    /\ LET r == load_bad_servers(file) IN
        /\ seen' = [seen EXCEPT ![p] = SeenKind(file)]
        /\ IF r.raises = "none"
           THEN /\ bad_servers' = [bad_servers EXCEPT ![p] = r.value]
                /\ loaded' = [loaded EXCEPT ![p] = r.value]
                /\ content' = [content EXCEPT ![p] = <<>>]
                /\ pc' = [pc EXCEPT ![p] = "round"]
                /\ UNCHANGED exc
           ELSE /\ exc' = [exc EXCEPT ![p] = r.raises]
                /\ pc' = [pc EXCEPT ![p] = "done"]
                /\ UNCHANGED <<bad_servers, loaded, content>>
    /\ UNCHANGED <<DATA_VERIFIER, file, driver, attempt, consent>>
    /\ UNCHANGED <<rejected, roundSub, roundFree, roundOrder, passed, submitted, timeouts,
                   navs, quits, saves, overlap, everInFile, fileBefore>>

\* finally: driver.quit(); after it the call returns content or the exception
\* goes on to the caller.
Finally(p) ==
    /\ driver' = [driver EXCEPT ![p] = "quit"]
    /\ quits' = [quits EXCEPT ![p] = @ + 1]
    /\ pc' = [pc EXCEPT ![p] = "done"]


\* A finally block that also saves the blacklist.
Propagate_saves(p) ==
    /\ Finally(p)
    /\ saves' = [saves EXCEPT ![p] = @ + 1]
    /\ file' = [exists |-> TRUE, text |-> json_dump(bad_servers'[p])]
    /\ everInFile' = everInFile \cup FileKeys(file')

\* An exception raised inside the try leaves the round loop: the rest of the
\* try body (the save of lines 177-179 included) is skipped and the finally
\* block runs.
Propagate(p) ==
    /\ Finally(p)
    /\ UNCHANGED <<file, saves, everInFile>>

\* The head of a round: driver.get, then the consent try block.  An exception
\* of the block that the except clause catches is logged and the round goes
\* on to the form wait.
navigate(p) ==
    /\ pc[p] = "round"
    /\ RoundsLeft(attempt[p])
    /\ navs' = [navs EXCEPT ![p] = CountNav(@)]
    /\ roundSub' = [roundSub EXCEPT ![p] = <<>>]
    /\ roundFree' = [roundFree EXCEPT ![p] = {}]
    /\ roundOrder' = [roundOrder EXCEPT ![p] = <<>>]
    /\ UNCHANGED <<DATA_VERIFIER, bad_servers, content, attempt>>
    /\ UNCHANGED <<loaded, seen, rejected, passed, submitted, timeouts, overlap, fileBefore>>
    /\ \E c \in ConsentOutcomes :
        /\ consent' = [consent EXCEPT ![p] = IF c = "clicked" THEN "clicked" ELSE "failed"]
        /\ IF c = "clicked" \/ ConsentCaught(c)
           THEN /\ pc' = [pc EXCEPT ![p] = "form"]
                /\ UNCHANGED <<exc, driver, quits, file, saves, everInFile>>
           ELSE /\ exc' = [exc EXCEPT ![p] = c]
                /\ Propagate(p)

\* A round whose driver.get raises: nothing in the try catches it.
navigate_raises(p) ==
    /\ pc[p] = "round"
    /\ RoundsLeft(attempt[p])
    /\ navs' = [navs EXCEPT ![p] = CountNav(@)]
    /\ exc' = [exc EXCEPT ![p] = "WebDriverException"]
    /\ roundSub' = [roundSub EXCEPT ![p] = <<>>]
    /\ roundFree' = [roundFree EXCEPT ![p] = {}]
    /\ roundOrder' = [roundOrder EXCEPT ![p] = <<>>]
    /\ UNCHANGED <<DATA_VERIFIER, bad_servers, content, attempt, consent>>
    /\ UNCHANGED <<loaded, seen, rejected, passed, submitted, timeouts, overlap, fileBefore>>
    /\ Propagate(p)

\* A round whose dropdown lookup or click raises: nothing in the try catches
\* it.
round_raises(p) ==
    /\ pc[p] = "form"
    /\ exc' = [exc EXCEPT ![p] = "WebDriverException"]
    /\ consent' = [consent EXCEPT ![p] = "none"]
    /\ UNCHANGED <<DATA_VERIFIER, bad_servers, content, attempt>>
    /\ UNCHANGED <<loaded, seen, rejected, roundSub, roundFree, roundOrder, passed,
                   submitted, timeouts, navs, overlap, fileBefore>>
    /\ Propagate(p)

\* A round whose WebDriverWait(driver, 10).until(form present) times out: the
\* wait is outside the try/except of the consent button.
form_wait_timeout(p) ==
    /\ pc[p] = "form"
    /\ timeouts' = [timeouts EXCEPT ![p] = @ + 1]
    /\ exc' = [exc EXCEPT ![p] = "TimeoutException"]
    /\ consent' = [consent EXCEPT ![p] = "none"]
    /\ UNCHANGED <<DATA_VERIFIER, bad_servers, content, attempt>>
    /\ UNCHANGED <<loaded, seen, rejected, roundSub, roundFree, roundOrder, passed,
                   submitted, navs, overlap, fileBefore>>
    /\ Propagate(p)

\* The elem loop of one round, from option i on.  st is the call's locals
\* [bad, content, exc] with sub, the codes submitted so far in the round,
\* rej, those of them whose text failed the verification, and pass, the texts
\* that passed it;
\* resp[i] is what the browser gives when option i is handled: Stale when
\* touching the element raises, otherwise the text the page shows after that
\* relay was submitted.
RECURSIVE ElemLoop(_, _, _, _, _)
ElemLoop(elems, resp, i, st, verifier) ==
    IF i > Len(elems) THEN st
    ELSE IF resp[i] = Stale
        \* server_code = elem.get_attribute('data-value') raises
        THEN [st EXCEPT !.exc = "WebDriverException"]
    ELSE IF InBad(Nth(elems, i), st.bad)
        \* continue
        THEN ElemLoop(elems, resp, i + 1, st, verifier)
    ELSE LET outcome == VerifyOutcome(verifier, resp[i])
             sub == Append(st.sub, Nth(elems, i))
         IN IF outcome = "TypeError"
                THEN [st EXCEPT !.exc = "TypeError", !.sub = sub]
            ELSE IF outcome = "found"
                \* content = current_content; break
                THEN [st EXCEPT !.content = resp[i], !.sub = sub,
                                !.pass = Append(@, resp[i])]
            \* bad_servers[server_code] = 1
            ELSE ElemLoop(elems, resp, i + 1,
                          [st EXCEPT !.bad = AddBad(@, Nth(elems, i)), !.sub = sub,
                                     !.rej = @ \cup {Nth(elems, i)}],
                          verifier)

\* What the elem loop of one round can leave behind, over every enumeration
\* the page may show and every response of the browser: the locals after the
\* loop (st), the codes that were enumerated and not blacklisted (free) and
\* their page order (order).
RoundResults(bad, cont, verifier) ==
    UNION { { [st    |-> ElemLoop(elems, resp, 1,
                                  [bad |-> bad, content |-> cont, exc |-> "none",
                                   sub |-> <<>>, rej |-> {}, pass |-> <<>>],
                                  verifier),
               free  |-> FreeCodes(elems, bad),
               order |-> FreeOrder(elems, bad)] :
              resp \in [1..Len(elems) -> Responses] } :
            elems \in Enumerations }

\* RoundResults for every value of the locals, worked out once.
RoundTable ==
    { [bad |-> bad, cont |-> cont, verifier |-> verifier,
       results |-> RoundResults(bad, cont, verifier)] :
        bad \in Dicts, cont \in {<<>>} \cup Texts, verifier \in AnyVerifier }

\* The rest of a round once the form is present: the dropdown, find_elements,
\* the elem loop, then "if content: break" or the next round.  The round
\* touches the call's browser and locals only.
round(p) ==
    /\ pc[p] = "form"
    /\ \E e \in RoundTable :
        /\ e.bad = bad_servers[p]
        /\ e.cont = content[p]
        /\ e.verifier = DATA_VERIFIER
        /\ \E r \in e.results :
            /\ bad_servers' = [bad_servers EXCEPT ![p] = r.st.bad]
            /\ content' = [content EXCEPT ![p] = r.st.content]
            /\ exc' = [exc EXCEPT ![p] = r.st.exc]
            /\ roundSub' = [roundSub EXCEPT ![p] = r.st.sub]
            /\ roundFree' = [roundFree EXCEPT ![p] = r.free]
            /\ roundOrder' = [roundOrder EXCEPT ![p] = r.order]
            /\ submitted' = [submitted EXCEPT ![p] = @ \o r.st.sub]
            /\ rejected' = [rejected EXCEPT ![p] = @ \cup r.st.rej]
            /\ passed' = [passed EXCEPT ![p] = @ \o r.st.pass]
            /\ IF r.st.exc # "none"
               THEN Propagate(p) /\ UNCHANGED attempt
               ELSE IF r.st.content # <<>>
                    \* if content: break
                    THEN /\ pc' = [pc EXCEPT ![p] = "after"]
                         /\ UNCHANGED <<attempt, driver, quits, file, saves, everInFile>>
                    ELSE /\ attempt' = [attempt EXCEPT ![p] = NextAttempt(@)]
                         /\ pc' = [pc EXCEPT ![p] = "round"]
                         /\ UNCHANGED <<driver, quits, file, saves, everInFile>>
    /\ consent' = [consent EXCEPT ![p] = "none"]
    /\ UNCHANGED <<DATA_VERIFIER, loaded, seen, timeouts, navs, overlap, fileBefore>>

\* The round loop has run range(5) out.
rounds_over(p) ==
    /\ pc[p] = "round"
    /\ ~RoundsLeft(attempt[p])
    /\ pc' = [pc EXCEPT ![p] = "after"]
    /\ roundSub' = [roundSub EXCEPT ![p] = <<>>]
    /\ roundFree' = [roundFree EXCEPT ![p] = {}]
    /\ roundOrder' = [roundOrder EXCEPT ![p] = <<>>]
    /\ UNCHANGED <<DATA_VERIFIER, file, exc, driver, bad_servers, content, attempt, consent>>
    /\ UNCHANGED <<loaded, seen, rejected, passed, submitted, timeouts, navs, quits, saves,
                   overlap, everInFile, fileBefore>>

\* After the loop, with a result: "if not content" is false, nothing is saved.
no_save(p) ==
    /\ pc[p] = "after"
    /\ ~ShouldSave(content[p])
    /\ Finally(p)
    /\ roundSub' = [roundSub EXCEPT ![p] = <<>>]
    /\ roundFree' = [roundFree EXCEPT ![p] = {}]
    /\ roundOrder' = [roundOrder EXCEPT ![p] = <<>>]
    /\ UNCHANGED <<DATA_VERIFIER, file, exc, bad_servers, content, attempt, consent>>
    /\ UNCHANGED <<loaded, seen, rejected, passed, submitted, timeouts, navs, saves,
                   overlap, everInFile, fileBefore>>

\* save_bad_servers, first half: open(bad_servers_path, 'w') creates or
\* truncates the file; json.dump then fills the handle's buffer.
save_open(p) ==
    /\ pc[p] = "after"
    /\ ShouldSave(content[p])
    /\ saves' = [saves EXCEPT ![p] = @ + 1]
    /\ file' = OpenForWrite(file)
    /\ pc' = [pc EXCEPT ![p] = "saving"]
    /\ UNCHANGED <<DATA_VERIFIER, exc, driver, bad_servers, content, attempt, consent>>
    /\ UNCHANGED <<loaded, seen, rejected, roundSub, roundFree, roundOrder, passed,
                   submitted, timeouts, navs, quits, overlap, everInFile, fileBefore>>

\* save_bad_servers whose open raises (no permission, no space): the file is
\* as it was and the error leaves the try.
save_raises(p) ==
    /\ pc[p] = "after"
    /\ ShouldSave(content[p])
    /\ saves' = [saves EXCEPT ![p] = @ + 1]
    /\ exc' = [exc EXCEPT ![p] = "OSError"]
    /\ Finally(p)
    /\ UNCHANGED <<DATA_VERIFIER, file, bad_servers, content, attempt, consent>>
    /\ UNCHANGED <<loaded, seen, rejected, roundSub, roundFree, roundOrder, passed,
                   submitted, timeouts, navs, overlap, everInFile, fileBefore>>

\* save_bad_servers, second half: the with block closes the file and the
\* buffered dump reaches it.
save_close(p) ==
    /\ pc[p] = "saving"
    /\ file' = FlushAtZero(file, json_dump(bad_servers[p]))
    /\ everInFile' = everInFile \cup FileKeys(file')
    /\ Finally(p)
    /\ UNCHANGED <<DATA_VERIFIER, exc, bad_servers, content, attempt, consent>>
    /\ UNCHANGED <<loaded, seen, rejected, roundSub, roundFree, roundOrder, passed,
                   submitted, timeouts, navs, saves, overlap, fileBefore>>

fetch_content_through_proxy(p) ==
    \/ session_start(p)
    \/ session_start_raises(p)
    \/ load(p)
    \/ navigate(p)
    \/ navigate_raises(p)
    \/ round_raises(p)
    \/ form_wait_timeout(p)
    \/ round(p)
    \/ rounds_over(p)
    \/ no_save(p)
    \/ save_open(p)
    \/ save_raises(p)
    \/ save_close(p)

Next == \E p \in Calls : fetch_content_through_proxy(p)

Spec == Init /\ [][Next]_vars

\* One call on its own (the request layer serves one request), with every
\* verifier value.
InitOneCall == Start(AnyVerifier)
OneCall == fetch_content_through_proxy("c1")
SpecOneCall == InitOneCall /\ [][OneCall]_vars

\* One call whose thread is scheduled as long as it has a step to take: every
\* browser step returns or raises (the waits time out after 5 s and 10 s, the
\* settle delay is 10 s).  The verifier is the literal as shipped or a marker.
FairOneCall == Init /\ [][OneCall]_vars /\ WF_vars(OneCall)

\* How a finished call ended.
Outcome(p) ==
    IF pc[p] # "done" THEN "running"
    ELSE IF exc[p] # "none" THEN "raised"
    ELSE IF content[p] # <<>> THEN "succeeded"
    ELSE "exhausted"

\* ------------------------------------------------------------- properties
Range(seq) == { seq[i] : i \in 1..Len(seq) }
NoRepeat(seq) == \A i, j \in 1..Len(seq) : i # j => seq[i] # seq[j]

\* The step in which call p returns or lets its exception out.
Returns(p) == pc[p] # "done" /\ pc'[p] = "done"
\* The codes call p submits in this step.
NewlySubmitted(p) ==
    { submitted'[p][i] : i \in (Len(submitted[p]) + 1)..Len(submitted'[p]) }

\* C1: when a call that no other call overlapped returns exhausted (no
\* exception, empty content), the file holds at that moment every key of the
\* blacklist the call loaded and every code it submitted and rejected.
C1_ExhaustedPersists ==
    [][\A p \in Calls :
          (Returns(p) /\ exc'[p] = "none" /\ content'[p] = <<>> /\ ~overlap'[p])
              => (Keys(loaded'[p]) \cup rejected'[p]) \subseteq FileKeys(file')]_vars

C1_Witness ==
    \E p \in Calls :
        /\ Outcome(p) = "exhausted" /\ ~overlap[p]
        /\ loaded[p] # <<>> /\ rejected[p] # {}
        /\ (Keys(loaded[p]) \cup rejected[p]) \subseteq FileKeys(file)

\* C2: when a call returns succeeded it has not invoked save_bad_servers, and
\* if no other call overlapped it the file is what it was when the call
\* started, whatever the call rejected before its success.
C2_SucceededLeavesFile ==
    [][\A p \in Calls :
          (Returns(p) /\ exc'[p] = "none" /\ content'[p] # <<>>)
              => /\ saves'[p] = 0
                 /\ ~overlap'[p] => file' = fileBefore'[p]]_vars

C2_Witness ==
    \E p \in Calls :
        /\ Outcome(p) = "succeeded" /\ ~overlap[p]
        /\ rejected[p] # {} /\ ~(rejected[p] \subseteq FileKeys(file))
        /\ saves[p] = 0 /\ file = fileBefore[p]

\* C3: however a call ends once its browser session was started, the session
\* has been released exactly once.
C3_ReleasedExactlyOnce ==
    \A p \in Calls : (pc[p] = "done" /\ driver[p] # "none") => quits[p] = 1

\* C4: no call submits a code that is a key of the blacklist it loaded.
C4_LoadedNeverSubmitted ==
    \A p \in Calls : Keys(loaded[p]) \cap Range(submitted[p]) = {}

C4_Witness ==
    \E p \in Calls : loaded[p] # <<>> /\ submitted[p] # <<>> /\ navs[p] > 1

\* C5: a form wait that times out does not abort the call: the call goes on
\* and, when it ends, ends succeeded or exhausted.
C5_FormTimeoutNotFatal ==
    \A p \in Calls :
        timeouts[p] > 0 =>
            /\ exc[p] = "none"
            /\ pc[p] = "done" => Outcome(p) \in {"succeeded", "exhausted"}

\* C6: load_bad_servers returns the empty blacklist for an absent file and
\* for a file of malformed content, and malformed content raises nothing.
C6_LoadNeverRaises ==
    \A p \in Calls :
        seen[p] \in {"absent", "malformed"} =>
            /\ exc[p] # "JSONDecodeError"
            /\ loaded[p] = <<>>

\* C7 as stated: once a code has been a key of the file, no call, sequential
\* or concurrent, submits it afterwards.
C7_NeverRetried ==
    [][\A p \in Calls : NewlySubmitted(p) \cap everInFile = {}]_vars

\* C7 as amended: while no two calls have overlapped, once a code has been a
\* key of the file no call submits it afterwards.
C7_NeverRetriedSequential ==
    [][(\A q \in Calls : ~overlap'[q])
          => \A p \in Calls : NewlySubmitted(p) \cap everInFile = {}]_vars

C7_Witness ==
    \E p, q \in Calls :
        /\ p # q /\ ~overlap[p] /\ ~overlap[q]
        /\ Outcome(q) = "exhausted" /\ saves[q] = 1 /\ rejected[q] # {}
        /\ rejected[q] \subseteq Keys(loaded[p])
        /\ ~(rejected[q] \subseteq FileKeys(fileBefore[q]))
        /\ submitted[p] # <<>>

\* C8: a load never finds the file empty, truncated or partly written by a
\* save of another call.
C8_LoadNeverSeesTorn ==
    \A p \in Calls : seen[p] # "torn"

\* C9: a save that completes leaves, when the file is valid JSON at all, the
\* saving call's own mapping and nothing another call saved since that call
\* loaded: the last save wins, so two overlapping exhausted calls can lose a
\* rejected code (the witness).
C9_LastSaveWins ==
    [][\A p \in Calls :
          (pc[p] = "saving" /\ pc'[p] = "done" /\ JsonValid(file'.text))
              => FileKeys(file') = Keys(bad_servers[p])]_vars

C9_Witness ==
    /\ \A p \in Calls : Outcome(p) = "exhausted" /\ saves[p] = 1 /\ overlap[p]
    /\ JsonValid(file.text)
    /\ \E p \in Calls : \E c \in rejected[p] : c \notin FileKeys(file)

\* C10: a call navigates to the entry URL at most MAX_ROUNDS times; in a round
\* it submits only codes that round enumerated and found not blacklisted, no
\* more of them than there are, and none twice.
C10_RoundBounds ==
    \A p \in Calls :
        /\ navs[p] <= MAX_ROUNDS
        /\ Range(roundSub[p]) \subseteq roundFree[p]
        /\ Len(roundSub[p]) <= Cardinality(roundFree[p])
        /\ NoRepeat(roundSub[p])

C10_Witness ==
    \E p \in Calls :
        /\ navs[p] = MAX_ROUNDS
        /\ Len(roundSub[p]) = 2
        /\ Cardinality(roundFree[p]) = 2

\* The exceptions that leave the round loop.
RoundErrors ==
    { "WebDriverException", "TimeoutException", "ElementClickInterceptedException",
      "TypeError" }

\* C11: for every marker and page text, once a candidate's text has passed
\* the verification the call selects no further candidate and navigates to
\* the entry URL no more.
C11_VerifiedStops ==
    [][\A p \in Calls :
          passed[p] # <<>> => (navs'[p] = navs[p] /\ submitted'[p] = submitted[p])]_vars

\* C12: a call never holds, and so never returns, a non-empty result that
\* lacks the marker as a substring.
C12_ResultHoldsMarker ==
    \A p \in Calls :
        content[p] # <<>> =>
            (DATA_VERIFIER.kind = "str" /\ Contains(DATA_VERIFIER.val, content[p]))

C12_Witness ==
    \E p \in Calls :
        /\ Outcome(p) = "succeeded" /\ DATA_VERIFIER.val = Marker
        /\ rejected[p] # {}
        /\ Contains(Marker, content[p])

\* C13: a call that returns returns the empty string exactly when no
\* candidate's text passed the verification (exhausted), and otherwise the
\* text of the first candidate that passed, every candidate submitted before
\* it having been rejected.
C13_ReturnValue ==
    \A p \in Calls :
        (pc[p] = "done" /\ exc[p] = "none") =>
            /\ (content[p] = <<>>) <=> (passed[p] = <<>>)
            /\ content[p] # <<>> =>
                /\ content[p] = passed[p][1]
                /\ \A i \in 1..(Len(submitted[p]) - 1) : submitted[p][i] \in rejected[p]

\* C14: every started call eventually returns or lets an exception out.
C14_Terminates ==
    \A p \in Calls : (pc[p] \notin {"idle", "done"}) ~> (pc[p] = "done")

C14_Witness ==
    \E p \in Calls : pc[p] = "done" /\ navs[p] = MAX_ROUNDS /\ quits[p] = 1

\* C15: a consent button that is not found or not clickable leaves the call
\* at the form wait of the same round, with no exception, its session open
\* and its blacklist and result as they were; from there the rest of the
\* round can run.
C15_ConsentFailureNotFatal ==
    [][\A p \in Calls :
          /\ (pc[p] = "round" /\ consent'[p] = "failed") =>
                /\ pc'[p] = "form" /\ exc'[p] = "none" /\ driver'[p] = "open"
                /\ bad_servers'[p] = bad_servers[p]
                /\ content'[p] = content[p]
          /\ (pc[p] = "form" /\ consent[p] = "failed") => ENABLED round(p)]_vars

C15_Witness ==
    \E p \in Calls :
        /\ pc[p] = "form" /\ consent[p] = "failed" /\ exc[p] = "none"
        /\ rejected[p] # {} /\ Keys(bad_servers[p]) = Keys(loaded[p]) \cup rejected[p]

\* C16: in a round the codes are submitted in the page's order: the k-th
\* submission is the k-th enumerated code that was not blacklisted, and every
\* submission before it was rejected.
C16_EnumerationOrder ==
    \A p \in Calls :
        /\ Len(roundSub[p]) <= Len(roundOrder[p])
        /\ \A k \in 1..Len(roundSub[p]) :
            /\ roundSub[p][k] = roundOrder[p][k]
            /\ \A j \in 1..(k - 1) : roundSub[p][j] \in rejected[p]

C16_Witness ==
    \E p \in Calls :
        /\ Len(roundSub[p]) = 2 /\ roundSub[p] = roundOrder[p]
        /\ roundSub[p][1] = "r2"

\* C17: within a call no code is submitted twice, over all rounds.
C17_SubmittedOnce ==
    \A p \in Calls : NoRepeat(submitted[p])

\* C18: at every point of a call the keys of its in-memory blacklist are the
\* keys it loaded and the codes it submitted and rejected, no more and no
\* fewer; the mapping a save writes has exactly those keys.
C18_BlacklistIsUnion ==
    \A p \in Calls :
        /\ Keys(bad_servers[p]) = Keys(loaded[p]) \cup rejected[p]
        /\ pc[p] = "saving" =>
              Keys(json_load(json_dump(bad_servers[p]))) = Keys(loaded[p]) \cup rejected[p]

C18_Witness ==
    \E p \in Calls :
        /\ pc[p] = "saving"
        /\ loaded[p] # <<>> /\ rejected[p] # {} /\ passed[p] = <<>>
        /\ Keys(bad_servers[p]) = Servers

\* C19: when an exception leaves the round loop of a call, the call has not
\* invoked save_bad_servers, and if no other call overlapped it the file is
\* what it was when the call started.
C19_ErrorSavesNothing ==
    [][\A p \in Calls :
          (Returns(p) /\ exc'[p] \in RoundErrors) =>
              /\ saves'[p] = 0
              /\ ~overlap'[p] => file' = fileBefore'[p]]_vars

C19_Witness ==
    \E p \in Calls :
        /\ pc[p] = "done" /\ exc[p] \in RoundErrors /\ ~overlap[p]
        /\ rejected[p] # {} /\ ~(rejected[p] \subseteq FileKeys(file))
        /\ saves[p] = 0 /\ file = fileBefore[p]

\* C20: a call that reaches the save, or returns exhausted with no exception,
\* has navigated to the entry URL exactly MAX_ROUNDS times.
C20_ExhaustedAfterAllRounds ==
    \A p \in Calls :
        \/ (pc[p] \in {"after", "saving"} /\ content[p] = <<>>)
        \/ Outcome(p) = "exhausted"
        => navs[p] = MAX_ROUNDS

C20_Witness ==
    \E p \in Calls :
        /\ Outcome(p) = "exhausted" /\ navs[p] = MAX_ROUNDS
        /\ Keys(bad_servers[p]) = Servers /\ rejected[p] # {}
        /\ Len(submitted[p]) < MAX_ROUNDS - 1
====
